---- MODULE Spec2Model ----
(***************************************************************************)
(* A model of pyvgk: the VGKConfiguration input deck (VGKConfiguration.py) *)
(* and the subprocess wrappers vgk / vgkcon (pyvgk.py).                    *)
(*                                                                         *)
(* Python values are records [t, n, s]: t is the type tag, n the number    *)
(* in hundredths (0.05 is 5, the int 120 is 12000, True is 100), s the     *)
(* characters of a str, one single-character string per element.           *)
(*                                                                         *)
(* An instance is a function from attribute names to values; an attribute  *)
(* that no statement has stored yet holds Unset, and reading it raises     *)
(* AttributeError.  `self.name = v` runs the setter bound to `name` when   *)
(* the class has one, and otherwise stores a plain instance attribute.     *)
(*                                                                         *)
(* The class body has no getters and one mis-indented decorator (line      *)
(* 497); the model reads every `@x.setter` method as the setter of the     *)
(* property called by the method's name, which is what the statements of   *)
(* __init__ and of a caller rely on.                                       *)
(***************************************************************************)
EXTENDS Integers, Sequences, FiniteSets, TLC

(* ----------------------------- bounds --------------------------------- *)

\* Number of assignments the caller makes after __init__ has ended.
MaxAssign == 1

\* Longest error-stream payload the external process writes.
MaxErrLen == 3

(* --------------------------- Python values ---------------------------- *)

None == [t |-> "none", n |-> 0, s |-> <<>>]

Unset == [t |-> "unset", n |-> 0, s |-> <<>>]

PyInt(k) == [t |-> "int", n |-> 100 * k, s |-> <<>>]

PyFloat(c) == [t |-> "float", n |-> c, s |-> <<>>]

PyBool(b) == [t |-> "bool", n |-> IF b THEN 100 ELSE 0, s |-> <<>>]

PyStr(chars) == [t |-> "str", n |-> 0, s |-> chars]

True == PyBool(TRUE)

False == PyBool(FALSE)

IsNum(v) == v.t \in {"int", "float", "bool"}

\* isinstance(value, int); bool is a subclass of int.
IsInstanceInt(v) == v.t \in {"int", "bool"}

\* Truth value of an object, as `if x:` tests it.
Truthy(v) ==
    CASE v.t = "none" -> FALSE
      [] v.t = "str" -> Len(v.s) > 0
      [] OTHER -> v.n # 0

(* ------------------------------ strings ------------------------------- *)

Digit == {"0", "1", "2", "3", "4", "5", "6", "7", "8", "9"}

Lower == {"a", "b", "c", "d", "e", "f", "g", "h", "i", "j", "k", "l", "m",
          "n", "o", "p", "q", "r", "s", "t", "u", "v", "w", "x", "y", "z"}

Upper == {"A", "B", "C", "D", "E", "F", "G", "H", "I", "J", "K", "L", "M",
          "N", "O", "P", "Q", "R", "S", "T", "U", "V", "W", "X", "Y", "Z"}

\* The character class [a-zA-Z0-9].
Alnum == Lower \cup Upper \cup Digit

\* The character class [a-zA-Z0-9-_].
DumpClass == Alnum \cup {"-", "_"}

AllIn(chars, class) == \A i \in 1..Len(chars) : chars[i] \in class

\* `$` matches at the end of the string and just before a newline that
\* ends the string: the text the pattern has to cover is the string, or the
\* string without its final newline.
BeforeDollar(chars) ==
    {chars} \cup (IF Len(chars) > 0 /\ chars[Len(chars)] = "\n"
                  THEN {SubSeq(chars, 1, Len(chars) - 1)} ELSE {})

\* match("^[a-zA-Z0-9]{1,8}$", filename)
MatchFilename(chars) ==
    \E w \in BeforeDollar(chars) : Len(w) \in 1..8 /\ AllIn(w, Alnum)

DotDat == <<".", "d", "a", "t">>

\* match("^[a-zA-Z0-9]{1,8}\.dat$", datfile)
MatchDatfile(chars) ==
    \E w \in BeforeDollar(chars) :
        /\ Len(w) - 4 \in 1..8
        /\ AllIn(SubSeq(w, 1, Len(w) - 4), Alnum)
        /\ SubSeq(w, Len(w) - 3, Len(w)) = DotDat

\* The text "{1, 8}": with a blank inside the braces it is no repetition
\* count, and the pattern matches these six characters literally.
BraceText == <<"{", "1", ",", " ", "8", "}">>

\* match("[a-zA-Z0-9-_]{1, 8}", binarydump): one character of the class,
\* then the literal text, anchored at the start only.
MatchContinuation(chars) ==
    /\ Len(chars) >= 7
    /\ chars[1] \in DumpClass
    /\ SubSeq(chars, 2, 7) = BraceText

(* --------------------------- the instance ----------------------------- *)

\* Attributes the setters and __init__ store.
StoredAttrs ==
    {"_filename", "_title", "_viscous", "_datfile", "_mach", "_incidence",
     "_reynolds", "_xtu", "_xtl", "_continuation", "_output_tos",
     "_output_griddata", "_output_binarydump", "_lift", "_user_defined_lift",
     "_change_defaults", "_finemesh_gridlines", "_coarsemesh_iterations",
     "_finemesh_iterations", "_overrelaxation", "_underrelaxation",
     "_coarse_relaxation_factor", "_niterations_coarse_inviscid_flow",
     "_niterations_fine_inviscid_flow", "_fine_relaxation_factor", "_dd21",
     "_dd22", "_artificial_viscosity", "_partially_conservative",
     "coarse_relaxation", "fine_relaxation", "under_relaxation",
     "over_relaxation"}

\* Attributes __str__ reads that no statement of the class stores.
ReadOnlyAttrs ==
    {"_over_relaxation", "_under_relaxation", "_coarse_relaxation",
     "_niterations_inviscid_flow", "_fine_relaxation"}

Attrs == StoredAttrs \cup ReadOnlyAttrs

\* The instance before __init__ has stored anything.
Blank == [a \in Attrs |-> Unset]

Store(self, attr, v) == [self EXCEPT ![attr] = v]

\* Outcome of a statement: the instance after it and the exception raised.
Ok(self) == [o |-> self, exc |-> "none"]

Raise(self, kind) == [o |-> self, exc |-> kind]

Token_d == PyStr(<<"d">>)

Token_n == PyStr(<<"n">>)

Token_y == PyStr(<<"y">>)

Token_1 == PyStr(<<"1">>)

Token_0 == PyStr(<<"0">>)

Token_yes == PyStr(<<"y", "e", "s">>)

Token_no == PyStr(<<"n", "o">>)

(* ------------------------------ setters ------------------------------- *)
(* Each setter is the method of the same name; it yields the outcome of    *)
(* `self.<name> = v`.  A comparison of a number with None or a str, len()  *)
(* of None and match() on a non-string raise TypeError.                    *)

filename(self, v) ==
    IF v.t # "str" THEN Raise(self, "TypeError")
    ELSE IF MatchFilename(v.s) THEN Ok(Store(self, "_filename", v))
    ELSE Raise(self, "ValueError")

title(self, v) ==
    IF v.t # "str" THEN Raise(self, "TypeError")
    ELSE IF Len(v.s) <= 68 THEN Ok(Store(self, "_title", v))
    ELSE Raise(self, "ValueError")

datfile(self, v) ==
    IF v.t # "str" THEN Raise(self, "TypeError")
    ELSE IF MatchDatfile(v.s) THEN Ok(Store(self, "_datfile", v))
    ELSE Raise(self, "ValueError")

incidence(self, v) ==
    IF ~IsNum(v) THEN Raise(self, "TypeError")
    ELSE IF -2000 <= v.n /\ v.n <= 2000 THEN Ok(Store(self, "_incidence", v))
    ELSE Raise(self, "ValueError")

mach(self, v) ==
    IF ~IsNum(v) THEN Raise(self, "TypeError")
    ELSE IF 5 <= v.n /\ v.n <= 95 THEN Ok(Store(self, "_mach", v))
    ELSE Raise(self, "ValueError")

lift(self, v) ==
    IF v.t = "none"
    THEN Ok(Store(Store(self, "_user_defined_lift", False), "_lift", None))
    ELSE IF ~IsNum(v) THEN Raise(self, "TypeError")
    ELSE IF 0 <= v.n /\ v.n <= 100
    THEN Ok(Store(Store(self, "_user_defined_lift", True), "_lift", v))
    ELSE Raise(self, "ValueError")

\* reynolds / 1e6: true division, the result is a float.
DivMillion(v) == PyFloat(v.n \div 1000000)

reynolds(self, v) ==
    IF ~IsNum(v) THEN Raise(self, "TypeError")
    ELSE IF 10000000 <= v.n THEN Ok(Store(self, "_reynolds", DivMillion(v)))
    ELSE Raise(self, "ValueError")

xtu(self, v) ==
    IF ~IsNum(v) THEN Raise(self, "TypeError")
    ELSE IF 1 <= v.n /\ v.n <= 100 THEN Ok(Store(self, "_xtu", v))
    ELSE Raise(self, "ValueError")

xtl(self, v) ==
    IF ~IsNum(v) THEN Raise(self, "TypeError")
    ELSE IF 1 <= v.n /\ v.n <= 100 THEN Ok(Store(self, "_xtl", v))
    ELSE Raise(self, "ValueError")

continuation(self, v) ==
    IF v.t = "none" THEN Ok(Store(self, "_continuation", False))
    ELSE IF v.t # "str" THEN Raise(self, "TypeError")
    ELSE IF MatchContinuation(v.s) THEN Ok(Store(self, "_continuation", v))
    ELSE Raise(self, "ValueError")

viscous(self, v) ==
    Ok(Store(self, "_viscous", IF Truthy(v) THEN Token_1 ELSE Token_0))

output_griddata(self, v) ==
    Ok(Store(self, "_output_griddata",
             IF Truthy(v) THEN Token_yes ELSE Token_no))

output_tos(self, v) ==
    Ok(Store(self, "_output_tos", IF Truthy(v) THEN Token_yes ELSE Token_no))

output_binarydump(self, v) ==
    Ok(Store(self, "_output_binarydump",
             IF Truthy(v) THEN Token_yes ELSE Token_no))

\* The accepting branch of every advanced setter: the aggregate flag, then
\* the value.
Changed(self, attr, v) ==
    Store(Store(self, "_change_defaults", True), attr, v)

finemesh_gridlines(self, v) ==
    IF v.t = "none" THEN Ok(Store(self, "_finemesh_gridlines", Token_d))
    ELSE IF ~IsNum(v) THEN Raise(self, "TypeError")
    ELSE IF 9600 <= v.n /\ v.n <= 16900 /\ IsInstanceInt(v)
    THEN Ok(Changed(self, "_finemesh_gridlines", v))
    ELSE Raise(self, "ValueError")

coarsemesh_iterations(self, v) ==
    IF v.t = "none" THEN Ok(Store(self, "_coarsemesh_iterations", Token_d))
    ELSE IF ~IsNum(v) THEN Raise(self, "TypeError")
    ELSE IF 0 < v.n /\ IsInstanceInt(v)
    THEN Ok(Changed(self, "_coarsemesh_iterations", v))
    ELSE Raise(self, "ValueError")

finemesh_iterations(self, v) ==
    IF v.t = "none" THEN Ok(Store(self, "_finemesh_iterations", Token_d))
    ELSE IF ~IsNum(v) THEN Raise(self, "TypeError")
    ELSE IF 0 < v.n /\ IsInstanceInt(v)
    THEN Ok(Changed(self, "_finemesh_iterations", v))
    ELSE Raise(self, "ValueError")

overrelaxation(self, v) ==
    IF v.t = "none" THEN Ok(Store(self, "_overrelaxation", Token_d))
    ELSE IF ~IsNum(v) THEN Raise(self, "TypeError")
    ELSE IF 0 <= v.n /\ v.n <= 200
    THEN Ok(Changed(self, "_overrelaxation", v))
    ELSE Raise(self, "ValueError")

underrelaxation(self, v) ==
    IF v.t = "none" THEN Ok(Store(self, "_underrelaxation", Token_d))
    ELSE IF ~IsNum(v) THEN Raise(self, "TypeError")
    ELSE IF 0 < v.n /\ v.n <= 100
    THEN Ok(Changed(self, "_underrelaxation", v))
    ELSE Raise(self, "ValueError")

coarse_relaxation_factor(self, v) ==
    IF v.t = "none" THEN Ok(Store(self, "_coarse_relaxation_factor", Token_d))
    ELSE IF ~IsNum(v) THEN Raise(self, "TypeError")
    ELSE IF 0 < v.n /\ v.n <= 50
    THEN Ok(Changed(self, "_coarse_relaxation_factor", v))
    ELSE Raise(self, "ValueError")

\* Decorated @niterations_coarse_inviscid_flow.setter, bound to the name
\* niterations_inviscid_flow, storing _niterations_coarse_inviscid_flow.
niterations_inviscid_flow(self, v) ==
    IF v.t = "none"
    THEN Ok(Store(self, "_niterations_coarse_inviscid_flow", Token_d))
    ELSE IF ~IsNum(v) THEN Raise(self, "TypeError")
    ELSE IF 0 < v.n /\ v.n <= 2000 /\ IsInstanceInt(v)
    THEN Ok(Changed(self, "_niterations_coarse_inviscid_flow", v))
    ELSE Raise(self, "ValueError")

\* Two separate `if` statements: after None has stored the sentinel, the
\* range test still runs, on None.
niterations_fine_inviscid_flow(self, v) ==
    LET s1 == IF v.t = "none"
              THEN Store(self, "_niterations_fine_inviscid_flow", Token_d)
              ELSE self
    IN  IF ~IsNum(v) THEN Raise(s1, "TypeError")
        ELSE IF 0 < v.n /\ v.n <= 2000 /\ IsInstanceInt(v)
        THEN Ok(Changed(s1, "_niterations_fine_inviscid_flow", v))
        ELSE Raise(s1, "ValueError")

fine_relaxation_factor(self, v) ==
    IF v.t = "none" THEN Ok(Store(self, "_fine_relaxation_factor", Token_d))
    ELSE IF ~IsNum(v) THEN Raise(self, "TypeError")
    ELSE IF 0 < v.n /\ v.n <= 50
    THEN Ok(Changed(self, "_fine_relaxation_factor", v))
    ELSE Raise(self, "ValueError")

\* Two separate `if` statements, as in niterations_fine_inviscid_flow.
dd21(self, v) ==
    LET s1 == IF v.t = "none" THEN Store(self, "_dd21", Token_d) ELSE self
    IN  IF ~IsNum(v) THEN Raise(s1, "TypeError")
        ELSE IF 0 <= v.n /\ v.n <= 1 THEN Ok(Changed(s1, "_dd21", v))
        ELSE Raise(s1, "ValueError")

\* The first statement tests the name dd22, which is neither a parameter
\* nor a module global: it raises NameError whatever the argument is.
dd22(self, v) == Raise(self, "NameError")

artificial_viscosity(self, v) ==
    IF v.t = "none" THEN Ok(Store(self, "_artificial_viscosity", Token_d))
    ELSE IF ~IsNum(v) THEN Raise(self, "TypeError")
    ELSE IF 0 <= v.n /\ v.n <= 100
    THEN Ok(Changed(self, "_artificial_viscosity", v))
    ELSE Raise(self, "ValueError")

\* Two separate `if` statements, as in niterations_fine_inviscid_flow.
partially_conservative(self, v) ==
    LET s1 == IF v.t = "none"
              THEN Store(self, "_partially_conservative", Token_d)
              ELSE self
    IN  IF ~IsNum(v) THEN Raise(s1, "TypeError")
        ELSE IF 0 <= v.n /\ v.n <= 100
        THEN Ok(Changed(s1, "_partially_conservative", v))
        ELSE Raise(s1, "ValueError")

\* Names the class binds to a setter.
Properties ==
    {"filename", "title", "datfile", "incidence", "mach", "lift", "reynolds",
     "xtu", "xtl", "continuation", "viscous", "output_griddata", "output_tos",
     "output_binarydump", "finemesh_gridlines", "coarsemesh_iterations",
     "finemesh_iterations", "overrelaxation", "underrelaxation",
     "coarse_relaxation_factor", "niterations_inviscid_flow",
     "niterations_fine_inviscid_flow", "fine_relaxation_factor", "dd21",
     "dd22", "artificial_viscosity", "partially_conservative"}

\* Names __init__ assigns for which the class has no setter: the setters
\* are called overrelaxation, underrelaxation, coarse_relaxation_factor and
\* fine_relaxation_factor.
PlainNames ==
    {"coarse_relaxation", "fine_relaxation", "under_relaxation",
     "over_relaxation"}

\* `self.<name> = v`.
SetAttr(self, name, v) ==
    CASE name = "filename" -> filename(self, v)
      [] name = "title" -> title(self, v)
      [] name = "datfile" -> datfile(self, v)
      [] name = "incidence" -> incidence(self, v)
      [] name = "mach" -> mach(self, v)
      [] name = "lift" -> lift(self, v)
      [] name = "reynolds" -> reynolds(self, v)
      [] name = "xtu" -> xtu(self, v)
      [] name = "xtl" -> xtl(self, v)
      [] name = "continuation" -> continuation(self, v)
      [] name = "viscous" -> viscous(self, v)
      [] name = "output_griddata" -> output_griddata(self, v)
      [] name = "output_tos" -> output_tos(self, v)
      [] name = "output_binarydump" -> output_binarydump(self, v)
      [] name = "finemesh_gridlines" -> finemesh_gridlines(self, v)
      [] name = "coarsemesh_iterations" -> coarsemesh_iterations(self, v)
      [] name = "finemesh_iterations" -> finemesh_iterations(self, v)
      [] name = "overrelaxation" -> overrelaxation(self, v)
      [] name = "underrelaxation" -> underrelaxation(self, v)
      [] name = "coarse_relaxation_factor" -> coarse_relaxation_factor(self, v)
      [] name = "niterations_inviscid_flow" -> niterations_inviscid_flow(self, v)
      [] name = "niterations_fine_inviscid_flow" ->
            niterations_fine_inviscid_flow(self, v)
      [] name = "fine_relaxation_factor" -> fine_relaxation_factor(self, v)
      [] name = "dd21" -> dd21(self, v)
      [] name = "dd22" -> dd22(self, v)
      [] name = "artificial_viscosity" -> artificial_viscosity(self, v)
      [] name = "partially_conservative" -> partially_conservative(self, v)
      [] OTHER -> Ok(Store(self, name, v))

(* ---------------------------- serialization --------------------------- *)

\* The 13 attributes of the changed-defaults block, in the order __str__
\* lists them.
AdvOrder ==
    <<"_finemesh_gridlines", "_coarsemesh_iterations", "_finemesh_iterations",
      "_over_relaxation", "_under_relaxation", "_coarse_relaxation",
      "_niterations_inviscid_flow", "_fine_relaxation",
      "_niterations_fine_inviscid_flow", "_dd21", "_dd22",
      "_artificial_viscosity", "_partially_conservative">>

\* The attributes __str__ reads, in the order it reads them; a branch reads
\* its condition first.
StrReads(self) ==
    <<"_filename", "_title", "_viscous", "_continuation">>
    \o (IF Truthy(self["_continuation"])
        THEN <<"_continuation">>
        ELSE <<"_datfile", "_output_tos", "_output_griddata">>)
    \o <<"_mach", "_incidence", "_lift">>
    \o (IF Truthy(self["_lift"]) THEN <<"_lift">> ELSE <<>>)
    \o <<"_reynolds", "_xtu", "_xtl", "_change_defaults">>
    \o (IF Truthy(self["_change_defaults"]) THEN AdvOrder ELSE <<>>)

\* The run-mode group of args.
RunBlock(self) ==
    IF Truthy(self["_continuation"])
    THEN <<PyInt(0), self["_continuation"]>>
    ELSE <<PyInt(1), self["_datfile"], self["_output_tos"],
           self["_output_griddata"]>>

\* The lift group of args.
LiftBlock(self) ==
    IF Truthy(self["_lift"]) THEN <<PyInt(1), self["_lift"]>> ELSE <<PyInt(0)>>

\* The advanced-defaults group of args.
DefaultsBlock(self) ==
    IF Truthy(self["_change_defaults"])
    THEN <<Token_y>> \o [i \in 1..Len(AdvOrder) |-> self[AdvOrder[i]]]
    ELSE <<Token_n>>

\* The list args of __str__.
StrArgs(self) ==
    <<self["_filename"], self["_title"], self["_viscous"]>>
    \o RunBlock(self)
    \o <<self["_mach"], self["_incidence"]>>
    \o LiftBlock(self)
    \o <<self["_reynolds"], self["_xtu"], self["_xtl"]>>
    \o DefaultsBlock(self)

DigitChar(d) ==
    CASE d = 0 -> "0" [] d = 1 -> "1" [] d = 2 -> "2" [] d = 3 -> "3"
      [] d = 4 -> "4" [] d = 5 -> "5" [] d = 6 -> "6" [] d = 7 -> "7"
      [] d = 8 -> "8" [] d = 9 -> "9"

RECURSIVE NatStr(_)
\* str() of a natural number.
NatStr(k) ==
    IF k < 10 THEN <<DigitChar(k)>>
    ELSE NatStr(k \div 10) \o <<DigitChar(k % 10)>>

Abs(k) == IF k < 0 THEN -k ELSE k

Sign(k) == IF k < 0 THEN <<"-">> ELSE <<>>

\* str() of a float with at most two decimals: the shortest decimal form,
\* with at least one digit after the point.
FloatStr(c) ==
    LET a == Abs(c)
        frac == a % 100
    IN  Sign(c) \o NatStr(a \div 100) \o <<".">>
        \o (IF frac % 10 = 0 THEN <<DigitChar(frac \div 10)>>
            ELSE <<DigitChar(frac \div 10), DigitChar(frac % 10)>>)

\* str(x), as map(str, args) applies it.
PyToStr(v) ==
    CASE v.t = "str" -> v.s
      [] v.t = "none" -> <<"N", "o", "n", "e">>
      [] v.t = "bool" -> IF v.n # 0 THEN <<"T", "r", "u", "e">>
                         ELSE <<"F", "a", "l", "s", "e">>
      [] v.t = "int" -> Sign(v.n) \o NatStr(Abs(v.n) \div 100)
      [] v.t = "float" -> FloatStr(v.n)

RECURSIVE JoinLines(_)
\* "\n".join(map(str, args)) + "\n", for a non-empty args.
JoinLines(args) ==
    IF Len(args) = 0 THEN <<>>
    ELSE PyToStr(Head(args)) \o <<"\n">> \o JoinLines(Tail(args))

\* Result of a call that has not been made.
NoCall == [exc |-> "nocall", missing |-> "", args |-> <<>>, text |-> <<>>]

\* str(self): AttributeError at the first attribute read that is not
\* stored, and otherwise the tokens and the text built from them.
__str__(self) ==
    LET reads == StrReads(self)
        gaps == {i \in 1..Len(reads) : self[reads[i]] = Unset}
    IN  IF gaps # {}
        THEN [exc |-> "AttributeError",
              missing |-> reads[CHOOSE i \in gaps : \A j \in gaps : i <= j],
              args |-> <<>>, text |-> <<>>]
        ELSE [exc |-> "none", missing |-> "", args |-> StrArgs(self),
              text |-> JoinLines(StrArgs(self))]

(* ------------------------------- inputs ------------------------------- *)

S_example == <<"e", "x", "a", "m", "p", "l", "e">>

S_example_nl == S_example \o <<"\n">>

S_nine == <<"e", "x", "a", "m", "p", "l", "e", "x", "x">>

S_rae2822 == <<"r", "a", "e", "2", "8", "2", "2">>

S_datfile == S_rae2822 \o DotDat

S_datfile_nl == S_datfile \o <<"\n">>

S_dump1 == <<"d", "u", "m", "p", "1">>

S_dump_nine == <<"d", "u", "m", "p", "1", "2", "3", "4", "5">>

S_brace == <<"a">> \o BraceText

S_title == <<"E", "x">>

S_title_nl == <<"E", "\n", "x">>

S_title_69 == [i \in 1..69 |-> "x"]

\* A keyword argument the caller did not pass.
Omitted == [t |-> "omitted", n |-> 0, s |-> <<>>]

\* Arguments a caller passes to __init__, per parameter.
CtorInputs(name) ==
    CASE name = "filename" -> {PyStr(S_example), PyStr(S_nine)}
      [] name = "viscous" -> {True}
      [] name = "datfile" -> {PyStr(S_datfile), PyStr(S_rae2822)}
      [] name = "mach" -> {PyFloat(70), PyFloat(96)}
      [] name = "incidence" -> {PyFloat(200), PyInt(21)}
      [] name = "reynolds" -> {PyInt(6040000), PyInt(99999)}
      [] name = "xtu" -> {PyFloat(5), PyInt(0)}
      [] name = "xtl" -> {PyFloat(5), PyFloat(150)}
      [] name = "title" -> {Omitted, PyStr(S_title), PyStr(S_title_69)}
      [] name = "continuation" -> {Omitted, PyStr(S_dump1), PyStr(S_brace)}
      [] name = "output_tos" -> {Omitted, True}
      [] name = "lift" -> {Omitted, PyInt(0), PyInt(2)}
      [] name = "partially_conservative" -> {Omitted, PyFloat(50)}
      [] name = "finemesh_gridlines" -> {Omitted, PyInt(120)}
      [] OTHER -> {Omitted}

\* Values a caller assigns after construction, per attribute name.
AssignInputs(name) ==
    CASE name = "filename" ->
            {PyStr(S_example), PyStr(S_nine), PyStr(S_example_nl)}
      [] name = "title" ->
            {PyStr(S_title), PyStr(S_title_69), PyStr(S_title_nl)}
      [] name = "datfile" ->
            {PyStr(S_datfile), PyStr(S_rae2822), PyStr(S_datfile_nl)}
      [] name = "mach" -> {PyFloat(5), PyFloat(4), PyFloat(96)}
      [] name = "incidence" -> {PyInt(-20), PyInt(21)}
      [] name = "reynolds" -> {PyInt(100000), PyInt(99999)}
      [] name = "xtu" -> {PyInt(1), PyFloat(0)}
      [] name = "xtl" -> {PyFloat(1), PyFloat(101)}
      [] name = "continuation" ->
            {None, PyStr(S_dump1), PyStr(S_dump_nine), PyStr(S_brace)}
      [] name = "lift" -> {None, PyInt(0), PyFloat(50), PyInt(1), PyFloat(101)}
      [] name \in {"viscous", "output_griddata", "output_tos",
                   "output_binarydump"} -> {True, False}
      [] name = "finemesh_gridlines" -> {None, PyInt(120), PyInt(95)}
      [] name \in {"coarsemesh_iterations", "finemesh_iterations"} ->
            {None, PyInt(10)}
      [] name \in {"niterations_inviscid_flow",
                   "niterations_fine_inviscid_flow"} -> {None, PyInt(20)}
      [] name \in {"dd21", "dd22"} -> {None, PyFloat(1)}
      [] name \in PlainNames -> {PyFloat(40), PyFloat(500)}
      [] OTHER -> {None, PyFloat(50)}

(* ----------------------------- __init__ ------------------------------- *)

\* The statements of __init__, by the name each one assigns.
InitOrder ==
    <<"filename", "viscous", "datfile", "mach", "incidence", "reynolds",
      "xtu", "xtl", "title", "continuation", "output_tos", "output_griddata",
      "output_binarydump", "lift", "_change_defaults",
      "partially_conservative", "artificial_viscosity", "dd22", "dd21",
      "coarse_relaxation", "fine_relaxation", "under_relaxation",
      "over_relaxation", "finemesh_gridlines", "finemesh_iterations",
      "coarsemesh_iterations">>

\* The keyword parameters of __init__ that tune the solver.
AdvancedKwargs ==
    {"partially_conservative", "artificial_viscosity", "dd22", "dd21",
     "coarse_relaxation", "fine_relaxation", "under_relaxation",
     "over_relaxation", "finemesh_gridlines", "finemesh_iterations",
     "coarsemesh_iterations"}

\* kwargs.get(name, default): the default of each optional parameter.
Default(name) ==
    CASE name = "title" -> PyStr(<<>>)
      [] name \in {"output_tos", "output_griddata", "output_binarydump"} ->
            Token_no
      [] OTHER -> None

\* The value a statement of __init__ assigns for the argument a.
Effective(name, a) == IF a = Omitted THEN Default(name) ELSE a

(* ------------------------------- state -------------------------------- *)

VARIABLES
    obj,      \* the VGKConfiguration instance
    phase,    \* "init" while __init__ runs, then "done" or "raised"
    step,     \* index in InitOrder of the next statement of __init__
    kw,       \* the arguments __init__ has consumed so far
    last,     \* the last statement executed and its outcome
    nassign,  \* assignments made by the caller
    out,      \* result of the last str(self)
    ipc,      \* position of vgk / vgkcon
    tool,     \* which wrapper is running
    child,    \* the external process: its state, exit code, stderr bytes
    handle,   \* the Popen handle: "none", "open", "released"
    ret,      \* what the wrapper returned or raised
    host,     \* the host process: "running" or "exited"
    events    \* log of the timeout path: the steps taken, in order

cfgvars == <<obj, phase, step, kw, last, nassign, out>>

runvars == <<ipc, tool, child, handle, ret, host, events>>

vars == <<obj, phase, step, kw, last, nassign, out,
          ipc, tool, child, handle, ret, host, events>>

NoStmt == [op |-> "none", name |-> "", val |-> None, exc |-> "none"]

CfgInit ==
    /\ obj = Blank
    /\ phase = "init"
    /\ step = 1
    /\ kw = [a \in {} |-> None]
    /\ last = NoStmt
    /\ nassign = 0
    /\ out = NoCall

\* One statement of __init__.  An exception leaves __init__ at once; the
\* attributes stored before it stay stored.
InitStep ==
    /\ phase = "init"
    /\ LET name == InitOrder[step]
       IN  \E a \in CtorInputs(name) :
             LET r == IF name = "_change_defaults"
                      THEN Ok(Store(obj, "_change_defaults", Token_n))
                      ELSE SetAttr(obj, name, Effective(name, a))
             IN  /\ obj' = r.o
                 /\ phase' = IF r.exc # "none" THEN "raised"
                             ELSE IF step = Len(InitOrder) THEN "done"
                             ELSE "init"
                 /\ step' = IF r.exc = "none" /\ step < Len(InitOrder)
                            THEN step + 1 ELSE step
                 /\ kw' = IF name = "_change_defaults" THEN kw
                          ELSE [n \in DOMAIN kw \cup {name} |->
                                   IF n = name THEN a ELSE kw[n]]
                 /\ last' = [op |-> "init", name |-> name,
                             val |-> Effective(name, a), exc |-> r.exc]
    /\ UNCHANGED <<nassign, out>>
    /\ UNCHANGED runvars

\* The caller assigns `cfg.<name> = v` on the instance __init__ left.  When
\* __init__ raises, the instance keeps the attributes stored up to there;
\* as the dd22 statement raises for every argument list, that instance is
\* the only kind there is to assign to.
Assign ==
    /\ phase \in {"done", "raised"}
    /\ nassign < MaxAssign
    /\ \E name \in Properties \cup PlainNames :
         \E v \in AssignInputs(name) :
           LET r == SetAttr(obj, name, v)
           IN  /\ obj' = r.o
               /\ last' = [op |-> "assign", name |-> name, val |-> v,
                           exc |-> r.exc]
    /\ nassign' = nassign + 1
    /\ UNCHANGED <<phase, step, kw, out>>
    /\ UNCHANGED runvars

\* A str(cfg) that writes the flag back while it builds the text.
Serialize_storing ==
    /\ phase \in {"done", "raised"}
    /\ out' = __str__(obj)
    /\ last' = [op |-> "str", name |-> "", val |-> None, exc |-> out'.exc]
    /\ obj' = Store(obj, "_change_defaults", Token_n)
    /\ UNCHANGED <<phase, step, kw, nassign>>
    /\ UNCHANGED runvars

\* The caller evaluates str(cfg), as encode() does.
Serialize ==
    /\ phase \in {"done", "raised"}
    /\ out' = __str__(obj)
    /\ last' = [op |-> "str", name |-> "", val |-> None, exc |-> out'.exc]
    /\ UNCHANGED <<obj, phase, step, kw, nassign>>
    /\ UNCHANGED runvars

(* --------------------------- vgk and vgkcon --------------------------- *)
(* The error stream is a sequence of bytes (0..255), the decoded text a    *)
(* sequence of code points.                                                *)

\* Bytes the external process writes to its error stream: "e", blank,
\* newline, and the two bytes C3 A9 that encode U+00E9.
ErrBytes == {101, 32, 10, 195, 169}

RECURSIVE SeqsUpTo(_, _)
SeqsUpTo(S, k) ==
    IF k = 0 THEN {<<>>}
    ELSE LET shorter == SeqsUpTo(S, k - 1)
         IN  shorter \cup {Append(q, x) : q \in shorter, x \in S}

ErrStreams == SeqsUpTo(ErrBytes, MaxErrLen)

\* Exit codes of the external process.
ExitCodes == {0, 1, 2}

RECURSIVE Utf8Ok(_)
\* Whether bytes.decode("utf-8") succeeds; covers one- and two-byte
\* sequences, the only well-formed ones ErrBytes can spell.
Utf8Ok(bytes) ==
    IF Len(bytes) = 0 THEN TRUE
    ELSE IF bytes[1] < 128 THEN Utf8Ok(Tail(bytes))
    ELSE IF /\ bytes[1] \in 194..223
            /\ Len(bytes) >= 2
            /\ bytes[2] \in 128..191
    THEN Utf8Ok(Tail(Tail(bytes)))
    ELSE FALSE

RECURSIVE Utf8Decode(_)
\* errs.decode(ENCODING), for bytes that are well formed.
Utf8Decode(bytes) ==
    IF Len(bytes) = 0 THEN <<>>
    ELSE IF bytes[1] < 128 THEN <<bytes[1]>> \o Utf8Decode(Tail(bytes))
    ELSE <<(bytes[1] - 192) * 64 + (bytes[2] - 128)>>
         \o Utf8Decode(Tail(Tail(bytes)))

\* Code points str.strip() removes.
Whitespace == {9, 10, 11, 12, 13, 28, 29, 30, 31, 32, 133, 160}

RECURSIVE LStrip(_)
LStrip(text) ==
    IF Len(text) > 0 /\ text[1] \in Whitespace THEN LStrip(Tail(text))
    ELSE text

RECURSIVE RStrip(_)
RStrip(text) ==
    IF Len(text) > 0 /\ text[Len(text)] \in Whitespace
    THEN RStrip(SubSeq(text, 1, Len(text) - 1))
    ELSE text

\* str.strip()
Strip(text) == RStrip(LStrip(text))

\* Value of `proc.returncode, errs.decode(ENCODING).strip()`.
ReturnValue(rc, errs) ==
    IF Utf8Ok(errs)
    THEN [kind |-> "return", code |-> rc, text |-> Strip(Utf8Decode(errs))]
    ELSE [kind |-> "UnicodeDecodeError", code |-> 0, text |-> <<>>]

NoResult == [kind |-> "none", code |-> 0, text |-> <<>>]

NoChild == [state |-> "none", rc |-> 0, err |-> <<>>]

RunInit ==
    /\ ipc = "start"
    /\ tool \in {"vgk", "vgkcon"}
    /\ child = NoChild
    /\ handle = "none"
    /\ ret = NoResult
    /\ host = [state |-> "running", status |-> 0]
    /\ events = <<>>

\* Popen([exe], stdout=PIPE, stdin=PIPE, stderr=PIPE): the process starts,
\* or the executable cannot be started and OSError leaves the call.
Popen ==
    /\ ipc = "start"
    /\ \/ /\ child' = [state |-> "running", rc |-> 0, err |-> <<>>]
          /\ handle' = "open"
          /\ ipc' = "communicate"
          /\ ret' = ret
       \/ /\ ret' = [kind |-> "OSError", code |-> 0, text |-> <<>>]
          /\ ipc' = "end"
          /\ UNCHANGED <<child, handle>>
    /\ UNCHANGED <<tool, host, events>>
    /\ UNCHANGED cfgvars

\* The external process ends by itself, with some exit code and some bytes
\* on its error stream.
ChildExit ==
    /\ child.state = "running"
    /\ \E rc \in ExitCodes, err \in ErrStreams :
         child' = [state |-> "exited", rc |-> rc, err |-> err]
    /\ UNCHANGED <<ipc, tool, handle, ret, host, events>>
    /\ UNCHANGED cfgvars

\* proc.communicate(..., timeout=timeout) returns: the process has ended.
Communicate ==
    /\ ipc = "communicate"
    /\ child.state = "exited"
    /\ ipc' = "return"
    /\ UNCHANGED <<tool, child, handle, ret, host, events>>
    /\ UNCHANGED cfgvars

\* proc.communicate raises TimeoutExpired: the process is still running
\* when the timeout ends.  The handler logs the error.
TimeoutExpired ==
    /\ ipc = "communicate"
    /\ child.state = "running"
    /\ ipc' = "kill"
    /\ events' = Append(events, "timeout")
    /\ UNCHANGED <<tool, child, handle, ret, host>>
    /\ UNCHANGED cfgvars

\* A kill() that sends nothing.
KillChild_noop(c) == c

\* proc.kill(): ends the process unless it has ended meanwhile.
KillChild(c) ==
    IF c.state = "running" THEN [state |-> "killed", rc |-> -9, err |-> <<>>]
    ELSE c

Kill ==
    /\ ipc = "kill"
    /\ child' = KillChild(child)
    /\ events' = Append(events, "kill")
    /\ ipc' = "sysexit"
    /\ UNCHANGED <<tool, handle, ret, host>>
    /\ UNCHANGED cfgvars

\* sys.exit(1): SystemExit(1) leaves the with block.
SysExit ==
    /\ ipc = "sysexit"
    /\ ret' = [kind |-> "SystemExit", code |-> 1, text |-> <<>>]
    /\ events' = Append(events, "exit")
    /\ ipc' = "unwind"
    /\ UNCHANGED <<tool, child, handle, host>>
    /\ UNCHANGED cfgvars

\* The return statement: its value is computed inside the with block.
Return ==
    /\ ipc = "return"
    /\ ret' = ReturnValue(child.rc, child.err)
    /\ ipc' = "unwind"
    /\ UNCHANGED <<tool, child, handle, host, events>>
    /\ UNCHANGED cfgvars

\* What an uncaught SystemExit does to the host process.
HostAfter(r, h) ==
    IF r.kind = "SystemExit" THEN [state |-> "exited", status |-> r.code]
    ELSE h

\* Popen.__exit__: closes the pipes and waits for the process, then the
\* return value or the exception reaches the caller; SystemExit, uncaught,
\* ends the host process with its code.
ExitWith ==
    /\ ipc = "unwind"
    /\ child.state # "running"
    /\ handle' = "released"
    /\ host' = HostAfter(ret, host)
    /\ ipc' = "end"
    /\ UNCHANGED <<tool, child, ret, events>>
    /\ UNCHANGED cfgvars

(* --------------------------- specifications --------------------------- *)

Init == CfgInit /\ RunInit /\ tool = "vgkcon"

Next == InitStep \/ Assign \/ Serialize

\* The configuration: construction, then assignments and serializations.
Spec == Init /\ [][Next]_vars

RunNext ==
    \/ Popen
    \/ ChildExit
    \/ Communicate
    \/ TimeoutExpired
    \/ Kill
    \/ SysExit
    \/ Return
    \/ ExitWith

\* The statements of the wrapper run one after the other and the timeout
\* is a timer: each is taken once it can be.  The external process is under
\* no obligation to end.
RunFairness ==
    /\ WF_vars(Popen)
    /\ WF_vars(Communicate)
    /\ WF_vars(TimeoutExpired)
    /\ WF_vars(Kill)
    /\ WF_vars(SysExit)
    /\ WF_vars(Return)
    /\ WF_vars(ExitWith)

\* Before a call of vgk or vgkcon; no configuration statement runs.
RunStart == CfgInit /\ RunInit

\* One call of vgk or vgkcon.
RunSpec == RunStart /\ [][RunNext]_vars /\ RunFairness

(* ------------------------------ properties ---------------------------- *)

\* The step executes one assignment statement, of __init__ or of the caller.
StmtDone ==
    \/ nassign' = nassign + 1
    \/ phase = "init" /\ (step' # step \/ phase' # "init")

\* The range or format the documentation gives for a value of a field.
Documented(name, v) ==
    CASE name = "filename" ->
            v.t = "str" /\ Len(v.s) \in 1..8 /\ AllIn(v.s, Alnum)
      [] name = "title" -> v.t = "str" /\ Len(v.s) <= 68
      [] name = "datfile" ->
            /\ v.t = "str"
            /\ Len(v.s) - 4 \in 1..8
            /\ AllIn(SubSeq(v.s, 1, Len(v.s) - 4), Alnum)
            /\ SubSeq(v.s, Len(v.s) - 3, Len(v.s)) = DotDat
      [] name = "mach" -> IsNum(v) /\ 5 <= v.n /\ v.n <= 95
      [] name = "incidence" -> IsNum(v) /\ -2000 <= v.n /\ v.n <= 2000
      [] name = "reynolds" -> IsNum(v) /\ 10000000 <= v.n
      [] name \in {"xtu", "xtl"} -> IsNum(v) /\ 1 <= v.n /\ v.n <= 100
      [] name = "continuation" ->
            \/ v.t = "none"
            \/ v.t = "str" /\ Len(v.s) \in 1..8 /\ AllIn(v.s, DumpClass)
      [] name = "lift" ->
            v.t = "none" \/ (IsNum(v) /\ 0 <= v.n /\ v.n <= 100)
      [] OTHER -> TRUE

C1_Fields ==
    {"filename", "title", "datfile", "mach", "incidence", "reynolds", "xtu",
     "xtl", "continuation", "lift"}

\* C1: an assignment to filename, title, datfile, mach, incidence,
\* reynolds, xtu, xtl, continuation or lift of a value outside the field's
\* documented range or format raises ValueError and leaves every attribute
\* of the instance as it was.
C1_RejectLeavesUntouched ==
    [][(/\ StmtDone
        /\ last'.name \in C1_Fields
        /\ ~Documented(last'.name, last'.val))
       => (last'.exc = "ValueError" /\ obj' = obj)]_vars

\* Every argument __init__ has consumed is in its documented range.
ArgsDocumented ==
    \A name \in DOMAIN kw : Documented(name, Effective(name, kw[name]))

\* The caller passed none of the advanced keyword arguments.
AdvancedOmitted ==
    \A name \in DOMAIN kw \cap AdvancedKwargs : kw[name] = Omitted

\* C2: construction from documented arguments with every advanced
\* parameter left unset yields a Configuration whose advanced-defaults
\* block is the single line "n".  (Stated for the constructions that get
\* as far as the advanced parameters.)
C2_UnsetSerializesN ==
    (/\ phase # "init"
     /\ nassign = 0
     /\ ArgsDocumented
     /\ AdvancedOmitted
     /\ obj["_change_defaults"] # Unset)
    => (phase = "done" /\ DefaultsBlock(obj) = <<Token_n>>)

\* C3: continuation None selects the fresh-run block (1, datfile,
\* output_tos, output_griddata); an identifier of 1 to 8 letters, digits,
\* hyphens and underscores is accepted, stored as given, and selects the
\* continuation block (0, identifier).
C3_RunModeBranch ==
    (/\ last.op \in {"init", "assign"}
     /\ last.name = "continuation"
     /\ Documented("continuation", last.val))
    => /\ last.exc = "none"
       /\ IF last.val = None
          THEN RunBlock(obj) = <<PyInt(1), obj["_datfile"],
                                 obj["_output_tos"], obj["_output_griddata"]>>
          ELSE /\ obj["_continuation"] = last.val
               /\ RunBlock(obj) = <<PyInt(0), last.val>>

\* Attributes that hold the value of an advanced parameter.
AdvAttrs ==
    {"_finemesh_gridlines", "_coarsemesh_iterations", "_finemesh_iterations",
     "_overrelaxation", "_underrelaxation", "_coarse_relaxation_factor",
     "_niterations_coarse_inviscid_flow", "_niterations_fine_inviscid_flow",
     "_fine_relaxation_factor", "_dd21", "_dd22", "_artificial_viscosity",
     "_partially_conservative", "coarse_relaxation", "fine_relaxation",
     "under_relaxation", "over_relaxation"} \cup ReadOnlyAttrs

\* Names through which an advanced parameter is assigned.
AdvNames ==
    {"finemesh_gridlines", "coarsemesh_iterations", "finemesh_iterations",
     "overrelaxation", "underrelaxation", "coarse_relaxation_factor",
     "niterations_inviscid_flow", "niterations_fine_inviscid_flow",
     "fine_relaxation_factor", "dd21", "dd22", "artificial_viscosity",
     "partially_conservative"} \cup PlainNames

\* The attribute the setter of an advanced parameter stores.
SlotOf(name) ==
    CASE name = "overrelaxation" -> "_overrelaxation"
      [] name = "underrelaxation" -> "_underrelaxation"
      [] name = "coarse_relaxation_factor" -> "_coarse_relaxation_factor"
      [] name = "fine_relaxation_factor" -> "_fine_relaxation_factor"
      [] name = "niterations_inviscid_flow" ->
            "_niterations_coarse_inviscid_flow"
      [] name = "finemesh_gridlines" -> "_finemesh_gridlines"
      [] name = "coarsemesh_iterations" -> "_coarsemesh_iterations"
      [] name = "finemesh_iterations" -> "_finemesh_iterations"
      [] name = "niterations_fine_inviscid_flow" ->
            "_niterations_fine_inviscid_flow"
      [] name = "dd21" -> "_dd21"
      [] name = "dd22" -> "_dd22"
      [] name = "artificial_viscosity" -> "_artificial_viscosity"
      [] name = "partially_conservative" -> "_partially_conservative"
      [] OTHER -> name

\* C4: once exactly one advanced parameter holds a value, the advanced
\* block is "y" followed by 13 lines in the fixed order, the value in the
\* position of its parameter and "d" in the twelve others.
C4_OneSetSerializesY ==
    (/\ last.op \in {"init", "assign"}
     /\ last.name \in AdvNames
     /\ last.exc = "none"
     /\ IsNum(last.val)
     /\ Cardinality({a \in AdvAttrs : IsNum(obj[a])}) = 1)
    => \E i \in 1..13 :
         DefaultsBlock(obj) =
            <<Token_y>> \o [j \in 1..13 |->
                              IF j = i THEN last.val ELSE Token_d]

\* C5: assigning None to an advanced parameter raises nothing, stores the
\* sentinel "d" and leaves the changed-defaults flag as it was.
C5_NoneIsDefault ==
    [][(/\ StmtDone
        /\ last'.name \in AdvNames \ PlainNames
        /\ last'.val = None)
       => /\ last'.exc = "none"
          /\ obj'[SlotOf(last'.name)] = Token_d
          /\ obj'["_change_defaults"] = obj["_change_defaults"]]_vars

\* The changed-defaults flag as __str__ tests it.
FlagOn(self) == Truthy(self["_change_defaults"])

\* C6: the changed-defaults flag turns true only in an accepted assignment
\* of a value other than None to an advanced parameter, every such
\* assignment leaves it true, and once true it stays true.
C6_FlagLatches ==
    [][/\ FlagOn(obj) => FlagOn(obj')
       /\ (~FlagOn(obj) /\ FlagOn(obj'))
          => (/\ last'.name \in AdvNames
              /\ last'.exc = "none"
              /\ last'.val # None)
       /\ (/\ StmtDone
           /\ last'.name \in AdvNames
           /\ last'.exc = "none"
           /\ last'.val # None)
          => FlagOn(obj')]_vars

\* C7: after lift = None the indicator is false and the lift group is the
\* single line 0; after an accepted lift = v, v in [0, 1], the indicator is
\* true and the lift group is the two lines 1 and v.
C7_LiftBranch ==
    (/\ last.op \in {"init", "assign"}
     /\ last.name = "lift"
     /\ last.exc = "none")
    => IF last.val = None
       THEN /\ obj["_user_defined_lift"] = False
            /\ LiftBlock(obj) = <<PyInt(0)>>
       ELSE /\ obj["_user_defined_lift"] = True
            /\ LiftBlock(obj) = <<PyInt(1), last.val>>

\* The documented range of the advanced parameter an attribute holds.
AdvRange(attr, v) ==
    CASE attr = "_finemesh_gridlines" ->
            IsInstanceInt(v) /\ 9600 <= v.n /\ v.n <= 16900
      [] attr \in {"_coarsemesh_iterations", "_finemesh_iterations"} ->
            IsInstanceInt(v) /\ 0 < v.n
      [] attr \in {"_overrelaxation", "over_relaxation", "_over_relaxation"} ->
            IsNum(v) /\ 0 <= v.n /\ v.n <= 200
      [] attr \in {"_underrelaxation", "under_relaxation",
                   "_under_relaxation"} ->
            IsNum(v) /\ 0 < v.n /\ v.n <= 100
      [] attr \in {"_coarse_relaxation_factor", "coarse_relaxation",
                   "_coarse_relaxation", "_fine_relaxation_factor",
                   "fine_relaxation", "_fine_relaxation"} ->
            IsNum(v) /\ 0 < v.n /\ v.n <= 50
      [] attr \in {"_niterations_coarse_inviscid_flow",
                   "_niterations_inviscid_flow",
                   "_niterations_fine_inviscid_flow"} ->
            IsInstanceInt(v) /\ 0 < v.n /\ v.n <= 2000
      [] attr \in {"_dd21", "_dd22"} -> IsNum(v) /\ 0 <= v.n /\ v.n <= 1
      [] OTHER -> IsNum(v) /\ 0 <= v.n /\ v.n <= 100

\* The canonical form of a stored attribute.
Canonical(attr, v) ==
    CASE attr = "_mach" -> IsNum(v) /\ 5 <= v.n /\ v.n <= 95
      [] attr = "_incidence" -> IsNum(v) /\ -2000 <= v.n /\ v.n <= 2000
      [] attr \in {"_xtu", "_xtl"} -> IsNum(v) /\ 1 <= v.n /\ v.n <= 100
      [] attr = "_reynolds" -> v.t = "float" /\ 10 <= v.n
      [] attr = "_lift" ->
            v = None \/ (IsNum(v) /\ 0 <= v.n /\ v.n <= 100)
      [] attr = "_viscous" -> v \in {Token_1, Token_0}
      [] attr \in {"_output_tos", "_output_griddata", "_output_binarydump"} ->
            v \in {Token_yes, Token_no}
      [] attr \in AdvAttrs -> v = Token_d \/ AdvRange(attr, v)
      [] OTHER -> TRUE

\* C10: every attribute the instance holds is in canonical form, and the
\* stored reynolds is the accepted input divided by 1,000,000.
C10_StoredCanonical ==
    /\ \A attr \in Attrs : obj[attr] = Unset \/ Canonical(attr, obj[attr])
    /\ (last.name = "reynolds" /\ last.exc = "none")
       => obj["_reynolds"].n * 1000000 = last.val.n

CountOf(seq, e) == Cardinality({i \in 1..Len(seq) : seq[i] = e})

\* C8: when the external process does not end within the timeout, the
\* wrapper takes the fatal path once: it kills the process, then ends the
\* host process with a nonzero status, returns no pair, and the call ends
\* with the subprocess handle released.
C8_TimeoutIsFatal ==
    /\ [](CountOf(events, "timeout") <= 1)
    /\ [](events # <<>> => ret.kind # "return")
    /\ [](host.state = "exited"
          => /\ host.status # 0
             /\ events = <<"timeout", "kill", "exit">>
             /\ child.state # "running")
    /\ [](events # <<>>
          => <>(/\ ipc = "end"
                /\ handle = "released"
                /\ host.state = "exited"))

\* The timeout ended a process that was still running, and the host
\* process is gone.
C8_Witness ==
    /\ ipc = "end"
    /\ host = [state |-> "exited", status |-> 1]
    /\ child.state = "killed"
    /\ handle = "released"

\* text is full without its leading and trailing whitespace.
IsStripOf(text, full) ==
    \E i \in 0..Len(full) :
      \E j \in 0..(Len(full) - i) :
        /\ text = SubSeq(full, i + 1, Len(full) - j)
        /\ \A k \in 1..i : full[k] \in Whitespace
        /\ \A k \in (Len(full) - j + 1)..Len(full) : full[k] \in Whitespace
        /\ text = <<>> \/ (text[1] \notin Whitespace
                           /\ text[Len(text)] \notin Whitespace)

\* C9: whenever the external process ends within the timeout, the call
\* returns the pair of its exit code and its error stream, decoded and
\* trimmed; nothing is raised and the host process keeps running.
C9_NormalCompletion ==
    (/\ ipc = "end"
     /\ events = <<>>
     /\ child.state = "exited")
    => /\ ret.kind = "return"
       /\ ret.code = child.rc
       /\ IsStripOf(ret.text, Utf8Decode(child.err))
       /\ host.state = "running"

(* ------------------------- one token per line -------------------------- *)

\* The string-valued attributes __str__ emits as tokens.
TokenFields == {"_filename", "_title", "_datfile", "_continuation"}

\* C11: the serialization has one line per emitted token: whatever the
\* accepted assignments stored in filename, title, datfile and
\* continuation, the text "\n".join builds for that token holds exactly
\* one newline, the one that ends its line, so the number of newlines
\* equals the number of tokens.
C11_OneLinePerToken ==
    \A a \in TokenFields :
        obj[a] # Unset => CountOf(JoinLines(<<obj[a]>>), "\n") = 1

(* ---------------------- serialization is read-only --------------------- *)

C13_ThirteenLines ==
    (/\ phase # "init"
     /\ nassign = 0
     /\ ArgsDocumented
     /\ AdvancedOmitted
     /\ obj["_change_defaults"] # Unset
     /\ kw["title"] # Omitted
     /\ kw["continuation"] = Omitted
     /\ kw["lift"] = Omitted)
    => (/\ phase = "done"
        /\ __str__(obj).exc = "none"
        /\ Len(__str__(obj).args) = 13
        /\ __str__(obj).args[13] = Token_n)

(* ------------------- serialization after construction ------------------ *)

\* C14: validation is not deferred to serialization: once __init__ has
\* run on documented arguments, construction has succeeded and str(cfg)
\* completes without error, every attribute it reads having been stored,
\* whatever accepted assignments followed.  (Stated for the constructions
\* that get as far as the advanced parameters.)
C14_SerializationCompletes ==
    (/\ phase # "init"
     /\ ArgsDocumented
     /\ "partially_conservative" \in DOMAIN kw)
    => (/\ phase = "done"
        /\ \A i \in 1..Len(StrReads(obj)) : obj[StrReads(obj)[i]] # Unset
        /\ __str__(obj).exc = "none")

(* --------------------------- the output flags -------------------------- *)

\* The output keyword parameters of __init__.
OutputFlags == {"output_tos", "output_griddata", "output_binarydump"}

\* The attribute the setter of an output flag stores.
OutputSlot(name) ==
    CASE name = "output_tos" -> "_output_tos"
      [] name = "output_griddata" -> "_output_griddata"
      [] name = "output_binarydump" -> "_output_binarydump"

\* C15: a construction that omits output_tos, output_griddata or
\* output_binarydump stores the token "no" for it, a flag stores "yes" only
\* when the caller passed True for it, and with output_tos and
\* output_griddata omitted the fresh-run block carries "no" for both.
C15_OmittedFlagsStoreNo ==
    /\ \A f \in OutputFlags :
         (nassign = 0 /\ f \in DOMAIN kw)
         => /\ kw[f] = Omitted => obj[OutputSlot(f)] = Token_no
            /\ obj[OutputSlot(f)] = Token_yes => kw[f] = True
    /\ (/\ nassign = 0
        /\ "output_griddata" \in DOMAIN kw
        /\ kw["output_tos"] = Omitted
        /\ kw["output_griddata"] = Omitted
        /\ ~Truthy(obj["_continuation"]))
       => SubSeq(RunBlock(obj), 3, 4) = <<Token_no, Token_no>>

====
